---------------------------- MODULE Spec2Model ----------------------------
(***************************************************************************)
(* State-synchronisation and job-orchestration engine of src/App.jsx:      *)
(* the manifest cache (cookie), the visible file list and its updater,     *)
(* hydrateUploads, uploadDocument, handleDelete, and the form-fill job     *)
(* with its poll timer.  React state setters are modelled as assignments   *)
(* of the values the code passes to them; every synchronous stretch of a   *)
(* handler (up to its next await or timer) is one action.  The backend is  *)
(* the environment: it holds the stored files and answers requests.        *)
(***************************************************************************)
EXTENDS Integers, Sequences, FiniteSets, TLC

(* ------------------------------ bounds --------------------------------- *)
MaxUploads == 2
MaxRefreshes == 1
MaxDeletes == 1
MaxStarts == 2
MaxPolls == 2
(* longest visible list and longest backend list given to the merge *)
MaxVisible == 3
MaxManifest == 2

(* ------------------------- program constants --------------------------- *)
JOB_POLL_INTERVAL_MS == 2000
MANIFEST_CACHE_TTL_MS == 5 * 60 * 1000

(* the instant (ms) at which the component mounts and reads the cache *)
MountTime == 2 * MANIFEST_CACHE_TTL_MS

(* ------------------------------ values --------------------------------- *)
(* a field the JSON value does not carry (undefined / null) *)
Null == "<undefined>"
(* Date.parse of a missing or malformed updatedAt *)
NaN == -1
(* a size that is not a number *)
NoSize == -1

(* --------------------------- isValidHttpUrl ---------------------------- *)
(* URLs are sequences of one-character strings over UrlChars: letters,   *)
(* ":", "/" and "\".  UrlProtocol follows the URL parser that new URL()    *)
(* runs, restricted to those characters (no digits, "@", "?", "#", "[").   *)
LowerLetters == {"f", "t", "p", "h", "s", "x"}
UpperLetters == {"F", "T", "P", "H", "S", "X"}
Letters == LowerLetters \cup UpperLetters
UrlChars == Letters \cup {":", "/", "\\"}
ToLower(c) ==
  CASE c = "F" -> "f" [] c = "T" -> "t" [] c = "P" -> "p" [] c = "H" -> "h"
    [] c = "S" -> "s" [] c = "X" -> "x" [] OTHER -> c

Url_empty == <<>>
Url_ftp == <<"f", "t", "p", ":", "/", "/", "x">>
Url_https == <<"h", "t", "t", "p", "s", ":", "/", "/", "x">>
Url_http == <<"h", "t", "t", "p", ":", "/", "/", "x">>
Url_HTTP == <<"H", "T", "T", "P", ":", "/", "/", "x">>
Url_HTTPS == <<"H", "T", "T", "P", "S", ":", "/", "/", "x">>
Url_nohost == <<"h", "t", "t", "p", ":", "/", "/">>
Url_emptyhost == <<"h", "t", "t", "p", ":", "/", "/", ":">>
Url_noscheme == <<"x">>

ColonIndex(url) ==
  IF \E i \in 1..Len(url) : url[i] = ":"
  THEN CHOOSE i \in 1..Len(url) : url[i] = ":" /\ \A j \in 1..(i - 1) : url[j] # ":"
  ELSE 0

RECURSIVE StripSlashes(_)
(* special authority (ignore) slashes state: every leading "/" and "\" *)
StripSlashes(s) ==
  IF s # <<>> /\ Head(s) \in {"/", "\\"} THEN StripSlashes(Tail(s)) ELSE s

(* the length of the longest prefix of s without a member of `stops` *)
RECURSIVE PrefixLen(_, _)
PrefixLen(s, stops) ==
  IF s = <<>> \/ Head(s) \in stops THEN 0 ELSE 1 + PrefixLen(Tail(s), stops)

(* host state and port state on `authority`, whose host ends at a member  *)
(* of `stops` or at ":": FALSE when the parser returns failure             *)
HostAndPortParse(authority, stops, hostRequired) ==
  LET n == PrefixLen(authority, stops \cup {":"})
      host == SubSeq(authority, 1, n)
      after == SubSeq(authority, n + 1, Len(authority))
      port == IF after # <<>> /\ Head(after) = ":" THEN Tail(after) ELSE <<>>
  IN
  /\ (hostRequired \/ (after # <<>> /\ Head(after) = ":")) => host # <<>>
  /\ \A i \in 1..Len(host) : host[i] \in Letters
  /\ (after # <<>> /\ Head(after) = ":")
       => (port = <<>> \/ Head(port) \in stops)

(* the schemes the parser treats as special, among those UrlChars can spell *)
SpecialSchemes == { <<"h", "t", "t", "p">>, <<"h", "t", "t", "p", "s">>, <<"f", "t", "p">> }

(* new URL(url).protocol ("other:" for any protocol but http: and https:), *)
(* or "invalid" when the constructor throws                                 *)
UrlProtocol(url) ==
  LET c == ColonIndex(url) IN
  IF c <= 1 THEN "invalid"
  ELSE
    LET scheme == [i \in 1..(c - 1) |-> ToLower(url[i])]
        rest == SubSeq(url, c + 1, Len(url))
    IN
    IF \E i \in 1..(c - 1) : url[i] \notin Letters THEN "invalid"
    ELSE IF scheme \in SpecialSchemes
         THEN IF ~HostAndPortParse(StripSlashes(rest), {"/", "\\"}, TRUE) THEN "invalid"
              ELSE IF scheme = <<"h", "t", "t", "p">> THEN "http:"
              ELSE IF scheme = <<"h", "t", "t", "p", "s">> THEN "https:"
              ELSE "other:"
         ELSE IF Len(rest) >= 2 /\ rest[1] = "/" /\ rest[2] = "/"
                 /\ ~HostAndPortParse(SubSeq(rest, 3, Len(rest)), {"/"}, FALSE)
              THEN "invalid"
              ELSE "other:"

(* an isValidHttpUrl that accepts whatever new URL() parses *)
isValidHttpUrl_AnyScheme(url) ==
  IF url = <<>> THEN FALSE ELSE UrlProtocol(url) # "invalid"

isValidHttpUrl(url) ==
  IF url = <<>> THEN FALSE
  ELSE UrlProtocol(url) = "http:" \/ UrlProtocol(url) = "https:"

(* ------------------------- manifest entries ---------------------------- *)
(* crypto.randomUUID(): a fresh id, named after the call that drew it: the   *)
(* i-th entry made by the caller `by` (<<"fetch", h>>, <<"select", n>>, ...) *)
randomUUID(by, i) == by \o <<i>>

Truthy(s) == s # Null /\ s # ""
OrElse(v, d) == IF v = Null THEN d ELSE v

mapManifestKeep(file) == Truthy(file.slug) \/ Truthy(file.fileName)

mapManifestEntry(file, id) ==
  [ id |-> id,
    name |-> IF Truthy(file.fileName) THEN file.fileName
             ELSE IF Truthy(file.slug) THEN file.slug ELSE "Stored file",
    size |-> IF file.size # NoSize THEN file.size ELSE 0,
    status |-> OrElse(file.status, "uploaded"),
    slug |-> OrElse(file.slug, ""),
    s3Url |-> OrElse(file.s3Url, ""),
    error |-> "",
    deleting |-> FALSE,
    persisted |-> TRUE ]

(* mapManifestEntriesToState, called by `by` *)
mapManifestEntriesToState(entries, by) ==
  LET kept == SelectSeq(entries, mapManifestKeep)
  IN [i \in 1..Len(kept) |-> mapManifestEntry(kept[i], randomUUID(by, i))]

(* a mergePersistedEntries that puts the kept rows before the server's *)
mergePersistedEntries_TransientFirst(persistedEntries, prevFiles) ==
  SelectSeq(prevFiles, LAMBDA entry : ~entry.persisted) \o persistedEntries

(* a mergePersistedEntries that returns the server's entries alone *)
mergePersistedEntries_DropsPrev(persistedEntries, prevFiles) == persistedEntries

(* a mergePersistedEntries that keeps every previous row *)
mergePersistedEntries_KeepsAll(persistedEntries, prevFiles) ==
  persistedEntries \o prevFiles

mergePersistedEntries(persistedEntries, prevFiles) ==
  LET transient == SelectSeq(prevFiles, LAMBDA entry : ~entry.persisted)
  IN persistedEntries \o transient


(* ------------------------------- state --------------------------------- *)
VARIABLES
  phase,           \* "init" (rendered, effects not run) | "mounted" | "unmounted"
  formUrl,         \* useState formUrl
  files,           \* useState files
  manifestError,   \* useState manifestError
  manifestLoading, \* useState manifestLoading
  jobStatus,       \* useState jobStatus
  jobId,           \* useState jobId
  jobError,        \* useState jobError
  filledFormUrl,   \* useState filledFormUrl
  pollTimer,       \* useRef pollTimer: 0 is null, otherwise a timer handle
  liveTimers,      \* poll timers set and neither fired nor cleared
  timerSeq,        \* handles handed out by setTimeout so far
  jobReqs,         \* form-fill requests in flight
  starts,          \* jobs created so far
  polls,           \* poll requests sent so far
  cookie,          \* the manifest cache cookie of this user
  signalAborted,   \* the AbortController signal of the mount-time hydrate
  hydrates,        \* hydrateUploads invocations
  uploads,         \* uploadDocument invocations
  deletes,         \* handleDelete invocations that sent a DELETE
  serverFiles,     \* the backend's stored files of this user
  lastEvent        \* the form-fill handler or continuation that ran last

viewVars == <<formUrl, files, manifestError, manifestLoading>>
jobVars == <<jobStatus, jobId, jobError, filledFormUrl>>
timerVars == <<pollTimer, liveTimers, timerSeq>>
jobNetVars == <<jobReqs, starts, polls>>
fileNetVars == <<hydrates, uploads, deletes, serverFiles>>
vars == <<phase, formUrl, files, manifestError, manifestLoading, jobStatus, jobId,
          jobError, filledFormUrl, pollTimer, liveTimers, timerSeq, jobReqs, starts,
          polls, cookie, signalAborted, hydrates, uploads, deletes,
          serverFiles, lastEvent>>

(* ------------------------- the manifest cache -------------------------- *)
NoCookie == [kind |-> "absent", updatedAt |-> NaN, files |-> <<>>]
BadCookie == [kind |-> "malformed", updatedAt |-> NaN, files |-> <<>>]

(* a readManifestCache that tests >= MANIFEST_CACHE_TTL_MS *)
readManifestCache_StaleAtTtl(c, now) ==
  IF c.kind # "json" THEN [hit |-> FALSE, data |-> <<>>, isStale |-> TRUE]
  ELSE [ hit |-> TRUE,
         data |-> c.files,
         isStale |-> IF c.updatedAt = NaN THEN TRUE
                     ELSE now - c.updatedAt >= MANIFEST_CACHE_TTL_MS ]

(* a readManifestCache that returns null for a stale snapshot *)
readManifestCache_DropsStale(c, now) ==
  IF c.kind # "json" \/ c.updatedAt = NaN
     \/ now - c.updatedAt > MANIFEST_CACHE_TTL_MS
  THEN [hit |-> FALSE, data |-> <<>>, isStale |-> TRUE]
  ELSE [hit |-> TRUE, data |-> c.files, isStale |-> FALSE]

(* readManifestCache: "null", or the parsed data with its staleness *)
readManifestCache(c, now) ==
  IF c.kind # "json" THEN [hit |-> FALSE, data |-> <<>>, isStale |-> TRUE]
  ELSE [ hit |-> TRUE,
         data |-> c.files,
         isStale |-> IF c.updatedAt = NaN THEN TRUE
                     ELSE now - c.updatedAt > MANIFEST_CACHE_TTL_MS ]

cacheSummary(file) ==
  [ status |-> file.status, slug |-> file.slug, fileName |-> file.name,
    s3Url |-> file.s3Url, size |-> file.size ]

(* a persistFilesToCache that forgets .filter((file) => file.slug) *)
persistFilesToCache_NoFilter(nextFiles) ==
  [i \in 1..Len(nextFiles) |-> cacheSummary(nextFiles[i])]

(* the manifestPayload.files that persistFilesToCache builds *)
persistFilesToCache(nextFiles) ==
  LET kept == SelectSeq(nextFiles, LAMBDA file : file.slug # "")
  IN [i \in 1..Len(kept) |-> cacheSummary(kept[i])]

writeManifestCache(payloadFiles) ==
  [kind |-> "json", updatedAt |-> MountTime, files |-> payloadFiles]

(* updateFiles called once or several times in a row: `results` are the     *)
(* successive values of the list; each is handed to persistFilesToCache and *)
(* the cookie keeps the last snapshot written                               *)
UpdateFiles(results) ==
  /\ files' = results[Len(results)]
  /\ cookie' = writeManifestCache(persistFilesToCache(results[Len(results)]))

(* updateFiles(..., {skipCache: true}) *)
UpdateFilesSkipCache(result) ==
  /\ files' = result
  /\ cookie' = cookie

NoFilesUpdate ==
  /\ files' = files
  /\ cookie' = cookie

(* the updater of updateFile(id, next) *)
updateFile(prev, id, next) ==
  [i \in 1..Len(prev) |->
     IF prev[i].id = id
     THEN [k \in DOMAIN prev[i] |-> IF k \in DOMAIN next THEN next[k] ELSE prev[i][k]]
     ELSE prev[i]]

(* a removeFile that drops every row sharing the slug of the row `id` *)
removeFile_BySlug(prev, id) ==
  SelectSeq(prev, LAMBDA file :
    \A j \in 1..Len(prev) : prev[j].id = id => file.slug # prev[j].slug)

(* the updater of removeFile(id) *)
removeFile(prev, id) == SelectSeq(prev, LAMBDA file : file.id # id)

(* error.message || fallback *)
MessageOr(msg, fallback) == IF msg = "" THEN fallback ELSE msg

(* ------------------------------ backend -------------------------------- *)
FileZ == [slug |-> "z", fileName |-> "z.pdf", size |-> 7, status |-> "uploaded",
          s3Url |-> "s3://z"]
RequestFailed == "Request failed (500)"

FileNameOf(u) == <<"a.pdf", "b.pdf", "c.pdf", "d.pdf">>[u]
SlugOf(u) == <<"a", "b", "c", "d">>[u]
S3UrlOf(u) == <<"s3://a", "s3://b", "s3://c", "s3://d">>[u]
LocalSize(u) == 10 * u
ServerSize(u) == 10 * u + 1

(* a file cached while the backend was still processing it *)
FileP == [slug |-> "p", fileName |-> "p.pdf", size |-> 9, status |-> "processing",
          s3Url |-> "s3://p"]

(* a manifest entry that carries a fileName and no slug: it passes the     *)
(* filter file.slug || file.fileName of mapManifestEntriesToState          *)
FileN == [slug |-> Null, fileName |-> "n.pdf", size |-> 5, status |-> "uploaded",
          s3Url |-> "s3://n"]

(* a cookie written by an earlier session, `age` ms before this mount *)
CookieAged(age, cached) ==
  [kind |-> "json", updatedAt |-> MountTime - age, files |-> cached]
FreshCookie(cached) == CookieAged(MANIFEST_CACHE_TTL_MS, cached)
StaleCookie(cached) == CookieAged(MANIFEST_CACHE_TTL_MS + 1, cached)
UndatedCookie(cached) == [kind |-> "json", updatedAt |-> NaN, files |-> cached]

InitCookies == { NoCookie, FreshCookie(<<FileZ>>), StaleCookie(<<FileZ>>) }
InitServerFiles == { <<>>, <<FileZ>> }

FormUrlInputs ==
  { Url_ftp, Url_https, Url_http, Url_HTTP, Url_HTTPS, Url_nohost, Url_emptyhost,
    Url_noscheme }

InitState ==
  /\ phase = "init"
  /\ formUrl = Url_empty
  /\ files = <<>>
  /\ manifestError = ""
  /\ manifestLoading = TRUE
  /\ jobStatus = "idle"
  /\ jobId = ""
  /\ jobError = ""
  /\ filledFormUrl = ""
  /\ pollTimer = 0
  /\ liveTimers = {}
  /\ timerSeq = 0
  /\ jobReqs = {}
  /\ starts = 0
  /\ polls = 0
  /\ signalAborted = FALSE
  /\ hydrates = <<>>
  /\ uploads = <<>>
  /\ deletes = <<>>
  /\ lastEvent = "render"

Init ==
  /\ InitState
  /\ cookie \in InitCookies
  /\ serverFiles \in InitServerFiles

(* ---------------------------- hydrateUploads --------------------------- *)
(* the stretch of hydrateUploads up to its await, for the invocation that  *)
(* becomes hydrates[Len(hydrates) + 1]                                      *)
HydrateStart(ignoreCache, hasSignal) ==
  LET cachedResult == readManifestCache(cookie, MountTime)
      aborted == hasSignal /\ signalAborted
      useCache == ~ignoreCache /\ cachedResult.hit
      cachedEntries ==
        mapManifestEntriesToState(cachedResult.data, <<"cache", Len(hydrates) + 1>>)
      fresh == useCache /\ ~cachedResult.isStale
      fetch == ~aborted /\ ~fresh
  IN
  /\ IF useCache /\ ~aborted
     THEN /\ UpdateFilesSkipCache(mergePersistedEntries(cachedEntries, files))
          /\ manifestError' = ""
     ELSE /\ NoFilesUpdate
          /\ manifestError' = manifestError
  /\ manifestLoading' = IF aborted THEN manifestLoading ELSE ~fresh
  /\ hydrates' = Append(hydrates,
       [ ignoreCache |-> ignoreCache, hasSignal |-> hasSignal,
         pc |-> IF fetch THEN "fetching" ELSE "done",
         fetches |-> IF fetch THEN 1 ELSE 0,
         ok |-> FALSE, resp |-> <<>> ])

(* useEffect(() => { void hydrateUploads({signal}) }, [hydrateUploads]) *)
Mount ==
  /\ phase = "init"
  /\ phase' = "mounted"
  /\ HydrateStart(FALSE, TRUE)
  /\ lastEvent' = lastEvent
  /\ UNCHANGED <<formUrl, jobVars, timerVars, jobNetVars, signalAborted, uploads,
                 deletes, serverFiles>>

(* the Refresh button (disabled while manifestLoading) *)
handleRefreshUploads ==
  /\ phase = "mounted"
  /\ ~manifestLoading
  /\ Len(hydrates) < 1 + MaxRefreshes
  /\ HydrateStart(TRUE, FALSE)
  /\ lastEvent' = lastEvent
  /\ UNCHANGED <<phase, formUrl, jobVars, timerVars, jobNetVars, signalAborted,
                 uploads, deletes, serverFiles>>

(* the backend answers GET /api/uploads *)
ServerManifest(h, ok) ==
  /\ hydrates[h].pc = "fetching"
  /\ hydrates' = [hydrates EXCEPT ![h].pc = "answered", ![h].ok = ok,
                                  ![h].resp = IF ok THEN serverFiles ELSE <<>>]
  /\ lastEvent' = lastEvent
  /\ UNCHANGED <<phase, viewVars, jobVars, timerVars, jobNetVars, cookie,
                 signalAborted, uploads, deletes, serverFiles>>

(* a hydrateUploads whose setManifestLoading(false) sits at the end of the *)
(* try block instead of in finally                                         *)
HydrateResponse_NoFinally(h) ==
  LET hy == hydrates[h]
      aborted == hy.hasSignal /\ signalAborted
      persistedEntries == mapManifestEntriesToState(hy.resp, <<"fetch", h>>)
  IN
  /\ hy.pc = "answered"
  /\ hydrates' = [hydrates EXCEPT ![h].pc = "done", ![h].resp = <<>>]
  /\ IF aborted
     THEN /\ NoFilesUpdate
          /\ UNCHANGED <<manifestError, manifestLoading>>
     ELSE IF hy.ok
     THEN /\ UpdateFiles(<<mergePersistedEntries(persistedEntries, files)>>)
          /\ manifestError' = ""
          /\ manifestLoading' = FALSE
     ELSE /\ NoFilesUpdate
          /\ manifestError' = MessageOr(RequestFailed, "Failed to load previous uploads.")
          /\ manifestLoading' = manifestLoading
  /\ lastEvent' = lastEvent
  /\ UNCHANGED <<phase, formUrl, jobVars, timerVars, jobNetVars, signalAborted,
                 uploads, deletes, serverFiles>>

(* hydrateUploads after the await: try, catch and finally *)
HydrateResponse(h) ==
  LET hy == hydrates[h]
      aborted == hy.hasSignal /\ signalAborted
      persistedEntries == mapManifestEntriesToState(hy.resp, <<"fetch", h>>)
  IN
  /\ hy.pc = "answered"
  /\ hydrates' = [hydrates EXCEPT ![h].pc = "done", ![h].resp = <<>>]
  /\ IF aborted
     THEN /\ NoFilesUpdate
          /\ UNCHANGED <<manifestError, manifestLoading>>
     ELSE IF hy.ok
     THEN /\ UpdateFiles(<<mergePersistedEntries(persistedEntries, files)>>)
          /\ manifestError' = ""
          /\ manifestLoading' = FALSE
     ELSE /\ NoFilesUpdate
          /\ manifestError' = MessageOr(RequestFailed, "Failed to load previous uploads.")
          /\ manifestLoading' = FALSE
  /\ lastEvent' = lastEvent
  /\ UNCHANGED <<phase, formUrl, jobVars, timerVars, jobNetVars, signalAborted,
                 uploads, deletes, serverFiles>>

(* ------------------------ uploads and deletes -------------------------- *)
newUploadEntry(id, u) ==
  [ id |-> id, name |-> FileNameOf(u), size |-> LocalSize(u), status |-> "uploading",
    slug |-> "", s3Url |-> "", error |-> "", deleting |-> FALSE, persisted |-> FALSE ]

(* handleFilesSelected with k selected files; each uploadDocument runs up  *)
(* to its await: updateFile(entryId, {uploading, error: ''}) and the POST   *)
handleFilesSelected(k) ==
  LET base == Len(uploads)
      entries == [i \in 1..k |-> newUploadEntry(randomUUID(<<"select", base>>, i), base + i)]
      appended == files \o entries
      marked == [i \in 1..k |->
                   updateFile(appended, entries[i].id, [status |-> "uploading", error |-> ""])]
  IN
  /\ phase = "mounted"
  /\ k >= 1
  /\ base + k <= MaxUploads
  /\ UpdateFiles(<<appended>> \o marked)
  /\ uploads' = uploads \o
       [i \in 1..k |-> [ id |-> entries[i].id, pc |-> "sent", ok |-> FALSE,
                         status |-> Null, msg |-> "", removed |-> FALSE ]]
  /\ lastEvent' = lastEvent
  /\ UNCHANGED <<phase, formUrl, manifestError, manifestLoading, jobVars, timerVars,
                 jobNetVars, signalAborted, hydrates, deletes, serverFiles>>

(* the backend answers POST /api/uploads: it stores the file, or fails *)
ServerUpload(u, ok, status) ==
  /\ uploads[u].pc = "sent"
  /\ uploads' = [uploads EXCEPT ![u].pc = "answered", ![u].ok = ok,
                                ![u].status = IF ok THEN status ELSE Null,
                                ![u].msg = IF ok THEN "" ELSE RequestFailed]
  /\ serverFiles' =
       IF ok
       THEN Append(serverFiles,
              [ slug |-> SlugOf(u), fileName |-> FileNameOf(u), size |-> ServerSize(u),
                status |-> status, s3Url |-> S3UrlOf(u) ])
       ELSE serverFiles
  /\ lastEvent' = lastEvent
  /\ UNCHANGED <<phase, viewVars, jobVars, timerVars, jobNetVars, cookie,
                 signalAborted, hydrates, deletes>>

(* an uploadDocument whose catch removes the row instead of marking it *)
UploadResponse_FailureRemovesRow(u) ==
  LET up == uploads[u]
      nextStatus == OrElse(up.status, "uploaded")
  IN
  /\ up.pc = "answered"
  /\ IF up.ok
     THEN /\ UpdateFiles(<<updateFile(files, up.id,
                 [ status |-> nextStatus, s3Url |-> S3UrlOf(u), slug |-> SlugOf(u),
                   error |-> "", size |-> ServerSize(u), persisted |-> TRUE ])>>)
          /\ uploads' = [uploads EXCEPT
                           ![u].pc = IF nextStatus = "processing" THEN "delay" ELSE "done"]
     ELSE /\ UpdateFiles(<<removeFile(files, up.id)>>)
          /\ uploads' = [uploads EXCEPT ![u].pc = "done"]
  /\ lastEvent' = lastEvent
  /\ UNCHANGED <<phase, formUrl, manifestError, manifestLoading, jobVars, timerVars,
                 jobNetVars, signalAborted, hydrates, deletes, serverFiles>>

(* uploadDocument after the await: the acknowledgment, or the catch; the     *)
(* backend's acknowledgment carries status, slug, s3Url and a numeric size  *)
UploadResponse(u) ==
  LET up == uploads[u]
      nextStatus == OrElse(up.status, "uploaded")
  IN
  /\ up.pc = "answered"
  /\ IF up.ok
     THEN /\ UpdateFiles(<<updateFile(files, up.id,
                 [ status |-> nextStatus, s3Url |-> S3UrlOf(u), slug |-> SlugOf(u),
                   error |-> "", size |-> ServerSize(u), persisted |-> TRUE ])>>)
          /\ uploads' = [uploads EXCEPT
                           ![u].pc = IF nextStatus = "processing" THEN "delay" ELSE "done"]
     ELSE /\ UpdateFiles(<<updateFile(files, up.id,
                 [ status |-> "error", error |-> MessageOr(up.msg, "Upload failed"),
                   s3Url |-> "", slug |-> "" ])>>)
          /\ uploads' = [uploads EXCEPT ![u].pc = "done"]
  /\ lastEvent' = lastEvent
  /\ UNCHANGED <<phase, formUrl, manifestError, manifestLoading, jobVars, timerVars,
                 jobNetVars, signalAborted, hydrates, deletes, serverFiles>>

(* a delay callback whose update is not handed to the cache *)
UploadDelayTimer_SkipCache(u) ==
  /\ uploads[u].pc = "delay"
  /\ UpdateFilesSkipCache(updateFile(files, uploads[u].id, [status |-> "uploaded"]))
  /\ uploads' = [uploads EXCEPT ![u].pc = "done"]
  /\ lastEvent' = lastEvent
  /\ UNCHANGED <<phase, formUrl, manifestError, manifestLoading, jobVars, timerVars,
                 jobNetVars, signalAborted, hydrates, deletes, serverFiles>>

(* the setTimeout callback of uploadDocument: updateFile(entryId, {uploaded}) *)
UploadDelayTimer(u) ==
  /\ uploads[u].pc = "delay"
  /\ UpdateFiles(<<updateFile(files, uploads[u].id, [status |-> "uploaded"])>>)
  /\ uploads' = [uploads EXCEPT ![u].pc = "done"]
  /\ lastEvent' = lastEvent
  /\ UNCHANGED <<phase, formUrl, manifestError, manifestLoading, jobVars, timerVars,
                 jobNetVars, signalAborted, hydrates, deletes, serverFiles>>

(* handleDelete(file) for the i-th visible row (its button is disabled     *)
(* while file.deleting), up to the await; uploads[u].removed records that   *)
(* the user removed the row of upload u before it was acknowledged          *)
handleDelete(i) ==
  LET file == files[i] IN
  /\ phase = "mounted"
  /\ i \in 1..Len(files)
  /\ ~file.deleting
  /\ IF file.slug = ""
     THEN /\ UpdateFiles(<<removeFile(files, file.id)>>)
          /\ deletes' = deletes
          /\ uploads' = [u \in 1..Len(uploads) |->
                           IF uploads[u].id = file.id
                           THEN [uploads[u] EXCEPT !.removed = TRUE] ELSE uploads[u]]
          /\ lastEvent' = lastEvent
     ELSE /\ Len(deletes) < MaxDeletes
          /\ UpdateFiles(<<updateFile(files, file.id, [deleting |-> TRUE, error |-> ""])>>)
          /\ deletes' = Append(deletes,
               [id |-> file.id, slug |-> file.slug, pc |-> "sent", ok |-> FALSE])
          /\ uploads' = uploads
          /\ lastEvent' = lastEvent
  /\ UNCHANGED <<phase, formUrl, manifestError, manifestLoading, jobVars, timerVars,
                 jobNetVars, signalAborted, hydrates, serverFiles>>

(* the backend answers DELETE /api/uploads/{slug}: it removes the file, or  *)
(* fails                                                                    *)
ServerDelete(d, ok) ==
  LET de == deletes[d] IN
  /\ de.pc = "sent"
  /\ deletes' = [deletes EXCEPT ![d].pc = "answered", ![d].ok = ok]
  /\ serverFiles' = IF ok THEN SelectSeq(serverFiles, LAMBDA f : f.slug # de.slug)
                    ELSE serverFiles
  /\ lastEvent' = lastEvent
  /\ UNCHANGED <<phase, viewVars, jobVars, timerVars, jobNetVars, cookie,
                 signalAborted, hydrates, uploads>>

(* handleDelete after the await: removeFile, or the catch *)
DeleteResponse(d) ==
  LET de == deletes[d] IN
  /\ de.pc = "answered"
  /\ deletes' = [deletes EXCEPT ![d].pc = "done"]
  /\ IF de.ok
     THEN UpdateFiles(<<removeFile(files, de.id)>>)
     ELSE UpdateFiles(<<updateFile(files, de.id,
            [deleting |-> FALSE, error |-> MessageOr(RequestFailed, "Unable to delete")])>>)
  /\ lastEvent' = lastEvent
  /\ UNCHANGED <<phase, formUrl, manifestError, manifestLoading, jobVars, timerVars,
                 jobNetVars, signalAborted, hydrates, uploads, serverFiles>>

(* ---------------------------- form-fill job ---------------------------- *)
JobResponseStatuses == {"queued", "filling", "complete", "error"}
ResultUrl == "https://x/y.pdf"
JobIdOf(n) == <<"J1", "J2", "J3", "J4">>[n]

formUrlIsValid == isValidHttpUrl(formUrl)
allUploadsComplete ==
  Len(files) > 0 /\ \A i \in 1..Len(files) : files[i].status = "uploaded"
(* a canStartFill that forgets the two jobStatus tests *)
canStartFill_IgnoresJob == formUrlIsValid /\ allUploadsComplete

canStartFill ==
  formUrlIsValid /\ allUploadsComplete /\ jobStatus # "filling" /\ jobStatus # "queued"

(* liveTimers after clearTimeout(pollTimer.current) *)
clearTimeout(timers, handle) == {t \in timers : t.tid # handle}

(* clearExistingPoll: the timer set and the ref it leaves *)
clearExistingPoll(timers, ref) ==
  IF ref # 0 THEN [timers |-> clearTimeout(timers, ref), ref |-> 0]
  ELSE [timers |-> timers, ref |-> ref]

(* scheduleJobPoll(pollJobId, formLink) up to setTimeout *)
scheduleJobPoll(pollJobId, formLink) ==
  LET cleared == clearExistingPoll(liveTimers, pollTimer) IN
  /\ timerSeq' = timerSeq + 1
  /\ pollTimer' = timerSeq + 1
  /\ liveTimers' = cleared.timers \cup
       {[tid |-> timerSeq + 1, jobId |-> pollJobId, formLink |-> formLink,
         delay |-> JOB_POLL_INTERVAL_MS]}

ClearPoll ==
  LET cleared == clearExistingPoll(liveTimers, pollTimer) IN
  /\ timerSeq' = timerSeq
  /\ pollTimer' = cleared.ref
  /\ liveTimers' = cleared.timers

(* the text field's onChange *)
setFormUrl(url) ==
  /\ phase = "mounted"
  /\ url # formUrl
  /\ formUrl' = url
  /\ lastEvent' = "setFormUrl"
  /\ UNCHANGED <<phase, files, manifestError, manifestLoading, jobVars, timerVars,
                 jobNetVars, cookie, signalAborted, fileNetVars>>

(* handleStartFill up to its await *)
handleStartFill ==
  /\ phase = "mounted"
  /\ IF ~canStartFill
     THEN /\ lastEvent' = "handleStartFill:return"
          /\ UNCHANGED <<jobVars, timerVars, jobNetVars>>
     ELSE /\ starts < MaxStarts
          /\ ClearPoll
          /\ jobStatus' = "queued"
          /\ jobId' = ""
          /\ jobError' = ""
          /\ filledFormUrl' = ""
          /\ starts' = starts + 1
          /\ jobReqs' = jobReqs \cup
               {[kind |-> "create", n |-> starts + 1, jobId |-> "", formLink |-> formUrl]}
          /\ polls' = polls
          /\ lastEvent' = "handleStartFill"
  /\ UNCHANGED <<phase, viewVars, cookie, signalAborted, fileNetVars>>

(* handleStartFill after the await, on a response of POST /api/form-fill *)
StartFillResponse(r, status, url) ==
  /\ r \in jobReqs /\ r.kind = "create"
  /\ jobReqs' = jobReqs \ {r}
  /\ jobId' = JobIdOf(r.n)
  /\ jobStatus' = status
  /\ filledFormUrl' = OrElse(url, "")
  /\ IF status = "complete"
     THEN jobError' = jobError /\ UNCHANGED timerVars
     ELSE IF status = "error"
     THEN jobError' = "Pipeline reported an error." /\ UNCHANGED timerVars
     ELSE jobError' = jobError /\ scheduleJobPoll(JobIdOf(r.n), r.formLink)
  /\ lastEvent' = "startFillResponse"
  /\ UNCHANGED <<phase, viewVars, starts, polls, cookie, signalAborted, fileNetVars>>

(* the catch of handleStartFill *)
StartFillFailure(r) ==
  /\ r \in jobReqs /\ r.kind = "create"
  /\ jobReqs' = jobReqs \ {r}
  /\ jobStatus' = "error"
  /\ jobError' = MessageOr(RequestFailed, "Failed to start form filling")
  /\ lastEvent' = "startFillFailure"
  /\ UNCHANGED <<phase, viewVars, jobId, filledFormUrl, timerVars, starts, polls,
                 cookie, signalAborted, fileNetVars>>

(* a poll timer set with setInterval: it stays pending after it has fired *)
PollTimerFires_Interval(t) ==
  /\ t \in liveTimers
  /\ polls < MaxPolls
  /\ liveTimers' = liveTimers
  /\ polls' = polls + 1
  /\ jobReqs' = jobReqs \cup
       {[kind |-> "poll", n |-> polls + 1, jobId |-> t.jobId, formLink |-> t.formLink]}
  /\ lastEvent' = "pollTimerFires"
  /\ UNCHANGED <<phase, viewVars, jobVars, pollTimer, timerSeq, starts, cookie,
                 signalAborted, fileNetVars>>

(* the poll timer expires: its callback runs up to the await *)
PollTimerFires(t) ==
  /\ t \in liveTimers
  /\ polls < MaxPolls
  /\ liveTimers' = liveTimers \ {t}
  /\ polls' = polls + 1
  /\ jobReqs' = jobReqs \cup
       {[kind |-> "poll", n |-> polls + 1, jobId |-> t.jobId, formLink |-> t.formLink]}
  /\ lastEvent' = "pollTimerFires"
  /\ UNCHANGED <<phase, viewVars, jobVars, pollTimer, timerSeq, starts, cookie,
                 signalAborted, fileNetVars>>

(* a timer callback that schedules the next poll whatever the status *)
PollResponse_KeepsPolling(r, status, url) ==
  /\ r \in jobReqs /\ r.kind = "poll"
  /\ jobReqs' = jobReqs \ {r}
  /\ jobStatus' = status
  /\ filledFormUrl' = OrElse(url, "")
  /\ jobError' = IF status = "error" THEN "Pipeline reported an error." ELSE jobError
  /\ scheduleJobPoll(r.jobId, r.formLink)
  /\ lastEvent' = "pollResponse"
  /\ UNCHANGED <<phase, viewVars, jobId, starts, polls, cookie, signalAborted,
                 fileNetVars>>

(* the timer callback after the await, on a response of GET /api/form-fill/{id} *)
PollResponse(r, status, url) ==
  /\ r \in jobReqs /\ r.kind = "poll"
  /\ jobReqs' = jobReqs \ {r}
  /\ jobStatus' = status
  /\ filledFormUrl' = OrElse(url, "")
  /\ IF status = "complete" \/ status = "error"
     THEN /\ jobError' = IF status = "error" THEN "Pipeline reported an error." ELSE ""
          /\ ClearPoll
     ELSE /\ jobError' = jobError
          /\ scheduleJobPoll(r.jobId, r.formLink)
  /\ lastEvent' = "pollResponse"
  /\ UNCHANGED <<phase, viewVars, jobId, starts, polls, cookie, signalAborted, fileNetVars>>

(* a timer callback whose catch schedules the poll again *)
PollFailure_Retries(r) ==
  /\ r \in jobReqs /\ r.kind = "poll"
  /\ jobReqs' = jobReqs \ {r}
  /\ jobStatus' = "error"
  /\ jobError' = MessageOr(RequestFailed, "Polling failed")
  /\ scheduleJobPoll(r.jobId, r.formLink)
  /\ lastEvent' = "pollFailure"
  /\ UNCHANGED <<phase, viewVars, jobId, filledFormUrl, starts, polls, cookie,
                 signalAborted, fileNetVars>>

(* the catch of the timer callback *)
PollFailure(r) ==
  /\ r \in jobReqs /\ r.kind = "poll"
  /\ jobReqs' = jobReqs \ {r}
  /\ jobStatus' = "error"
  /\ jobError' = MessageOr(RequestFailed, "Polling failed")
  /\ ClearPoll
  /\ lastEvent' = "pollFailure"
  /\ UNCHANGED <<phase, viewVars, jobId, filledFormUrl, starts, polls, cookie,
                 signalAborted, fileNetVars>>

(* the effect cleanups: clearTimeout(pollTimer.current), abortController.abort(). *)
(* Requests in flight and the upload delay timer are not cancelled: their        *)
(* continuations still run afterwards, and the model keeps recording the values  *)
(* they hand to the setters, to the cookie and to pollTimer                      *)
Unmount ==
  /\ phase = "mounted"
  /\ phase' = "unmounted"
  /\ signalAborted' = TRUE
  /\ liveTimers' = IF pollTimer # 0 THEN clearTimeout(liveTimers, pollTimer) ELSE liveTimers
  /\ lastEvent' = lastEvent
  /\ UNCHANGED <<viewVars, jobVars, pollTimer, timerSeq, jobNetVars, cookie, fileNetVars>>

(* the URL a job response carries: only a complete job has one *)
ResponseUrls(status) == IF status = "complete" THEN {ResultUrl, Null} ELSE {Null}

Next ==
  \/ Mount
  \/ handleRefreshUploads
  \/ \E h \in 1..Len(hydrates), ok \in BOOLEAN : ServerManifest(h, ok)
  \/ \E h \in 1..Len(hydrates) : HydrateResponse(h)
  \/ \E k \in 1..MaxUploads : handleFilesSelected(k)
  \/ \E u \in 1..Len(uploads), ok \in BOOLEAN, st \in {"uploaded", "processing"} :
       ServerUpload(u, ok, st)
  \/ \E u \in 1..Len(uploads) : UploadResponse(u)
  \/ \E u \in 1..Len(uploads) : UploadDelayTimer(u)
  \/ \E i \in 1..Len(files) : handleDelete(i)
  \/ \E d \in 1..Len(deletes), ok \in BOOLEAN : ServerDelete(d, ok)
  \/ \E d \in 1..Len(deletes) : DeleteResponse(d)
  \/ \E url \in FormUrlInputs : setFormUrl(url)
  \/ handleStartFill
  \/ \E r \in jobReqs, st \in JobResponseStatuses :
       \E url \in ResponseUrls(st) : StartFillResponse(r, st, url)
  \/ \E r \in jobReqs : StartFillFailure(r)
  \/ \E t \in liveTimers : PollTimerFires(t)
  \/ \E r \in jobReqs, st \in JobResponseStatuses :
       \E url \in ResponseUrls(st) : PollResponse(r, st, url)
  \/ \E r \in jobReqs : PollFailure(r)
  \/ Unmount

Spec == Init /\ [][Next]_vars

(* the file list alone: hydrate, refresh, uploads, deletes, teardown *)
NextFiles ==
  \/ Mount
  \/ handleRefreshUploads
  \/ \E h \in 1..Len(hydrates), ok \in BOOLEAN : ServerManifest(h, ok)
  \/ \E h \in 1..Len(hydrates) : HydrateResponse(h)
  \/ \E k \in 1..MaxUploads : handleFilesSelected(k)
  \/ \E u \in 1..Len(uploads), ok \in BOOLEAN, st \in {"uploaded", "processing"} :
       ServerUpload(u, ok, st)
  \/ \E u \in 1..Len(uploads) : UploadResponse(u)
  \/ \E u \in 1..Len(uploads) : UploadDelayTimer(u)
  \/ \E i \in 1..Len(files) : handleDelete(i)
  \/ \E d \in 1..Len(deletes), ok \in BOOLEAN : ServerDelete(d, ok)
  \/ \E d \in 1..Len(deletes) : DeleteResponse(d)
  \/ Unmount

SpecFiles == Init /\ [][NextFiles]_vars

(* the form-fill job over a list that the mount-time hydrate loads *)
InitJob ==
  /\ InitState
  /\ cookie \in { NoCookie, FreshCookie(<<FileZ>>), FreshCookie(<<FileZ, FileP>>) }
  /\ serverFiles \in { <<FileZ>> }

NextJob ==
  \/ Mount
  \/ \E h \in 1..Len(hydrates), ok \in BOOLEAN : ServerManifest(h, ok)
  \/ \E h \in 1..Len(hydrates) : HydrateResponse(h)
  \/ \E url \in FormUrlInputs : setFormUrl(url)
  \/ handleStartFill
  \/ \E r \in jobReqs, st \in JobResponseStatuses :
       \E url \in ResponseUrls(st) : StartFillResponse(r, st, url)
  \/ \E r \in jobReqs : StartFillFailure(r)
  \/ \E t \in liveTimers : PollTimerFires(t)
  \/ \E r \in jobReqs, st \in JobResponseStatuses :
       \E url \in ResponseUrls(st) : PollResponse(r, st, url)
  \/ \E r \in jobReqs : PollFailure(r)
  \/ Unmount

SpecJob == InitJob /\ [][NextJob]_vars

(* the mount-time hydrate over every kind of stored cookie *)
InitHydrate ==
  /\ InitState
  /\ cookie \in { NoCookie, BadCookie, UndatedCookie(<<FileZ>>),
                   CookieAged(1, <<FileZ, FileP>>), FreshCookie(<<FileZ>>),
                   StaleCookie(<<FileZ>>), StaleCookie(<<>>) }
  /\ serverFiles \in { <<>>, <<FileZ>>, <<FileZ, FileP>>, <<FileZ, FileN>> }

NextHydrate ==
  \/ Mount
  \/ handleRefreshUploads
  \/ \E h \in 1..Len(hydrates), ok \in BOOLEAN : ServerManifest(h, ok)
  \/ \E h \in 1..Len(hydrates) : HydrateResponse(h)
  \/ Unmount

SpecHydrate == InitHydrate /\ [][NextHydrate]_vars


(* ------------------- mergePersistedEntries on its own ------------------- *)
(* applyManifestEntries(entries, {skipCache}) *)
applyManifestEntries(entries, skipCache) ==
  IF skipCache
  THEN UpdateFilesSkipCache(mergePersistedEntries(entries, files))
  ELSE UpdateFiles(<<mergePersistedEntries(entries, files)>>)

(* rows a visible list can hold: two from a manifest, two from selections  *)
(* (one still uploading, one failed)                                        *)
VisibleRows ==
  { mapManifestEntry(FileZ, randomUUID(<<"cache", 1>>, 1)),
    mapManifestEntry(FileP, randomUUID(<<"cache", 1>>, 2)),
    newUploadEntry(randomUUID(<<"select", 0>>, 1), 1),
    [newUploadEntry(randomUUID(<<"select", 0>>, 2), 2)
       EXCEPT !.status = "error", !.error = RequestFailed] }

(* the lists of at most n different members of S *)
ListsOf(S, n) ==
  { q \in UNION { [1..k -> S] : k \in 0..n } :
      \A i, j \in 1..Len(q) : i # j => q[i] # q[j] }

(* the visible list and the backend's list are the two inputs *)
InitMerge ==
  /\ phase = "mounted"
  /\ formUrl = Url_empty
  /\ files \in ListsOf(VisibleRows, MaxVisible)
  /\ manifestError = ""
  /\ manifestLoading = TRUE
  /\ jobStatus = "idle"
  /\ jobId = ""
  /\ jobError = ""
  /\ filledFormUrl = ""
  /\ pollTimer = 0
  /\ liveTimers = {}
  /\ timerSeq = 0
  /\ jobReqs = {}
  /\ starts = 0
  /\ polls = 0
  /\ cookie = NoCookie
  /\ signalAborted = FALSE
  /\ hydrates = <<>>
  /\ uploads = <<>>
  /\ deletes = <<>>
  /\ serverFiles \in ListsOf({FileZ, FileP}, MaxManifest)
  /\ lastEvent = "render"

(* the entries of the backend's list are applied to the visible list *)
MergeStep(skipCache) ==
  /\ applyManifestEntries(mapManifestEntriesToState(serverFiles, <<"fetch", 1>>), skipCache)
  /\ lastEvent' = lastEvent
  /\ UNCHANGED <<phase, formUrl, manifestError, manifestLoading, jobVars, timerVars,
                 jobNetVars, signalAborted, hydrates, uploads, deletes, serverFiles>>

NextMerge == \E skipCache \in BOOLEAN : MergeStep(skipCache)

SpecMerge == InitMerge /\ [][NextMerge]_vars

(* ============================== claims ================================= *)
Terminal(status) == status = "complete" \/ status = "error"
HasSlug(list, slug) == \E i \in 1..Len(list) : list[i].slug = slug

(* C1: every snapshot written to the manifest cache holds only entries     *)
(* with a non-empty slug, whatever uploading or failed entries are visible *)
C1_NoTransientInCache ==
  cookie.kind = "json" => \A i \in 1..Len(cookie.files) : Truthy(cookie.files[i].slug)

(* a snapshot written in this session while a failed and a confirmed       *)
(* upload are both visible                                                  *)
C1_Witness ==
  /\ cookie.updatedAt = MountTime
  /\ Len(cookie.files) >= 1
  /\ \E i \in 1..Len(files) : files[i].slug = "" /\ files[i].status = "error"
  /\ \E i \in 1..Len(files) : files[i].slug = "" /\ files[i].status = "uploading"

(* C2: at most one poll timer is pending, and it is the one pollTimer      *)
(* holds; a handleStartFill while the job is queued or filling sends no    *)
(* request, sets no timer and leaves the job state as it was               *)
C2_OneTimerAndNoSecondStart ==
  [][ /\ Cardinality(liveTimers') <= 1
      /\ \A t \in liveTimers' : t.tid = pollTimer'
      /\ (handleStartFill /\ jobStatus \in {"queued", "filling"})
           => UNCHANGED <<jobVars, timerVars, jobReqs, starts>> ]_vars

(* a start was just refused while the job is queued with its timer pending *)
C2_Witness ==
  /\ lastEvent = "handleStartFill:return"
  /\ jobStatus \in {"queued", "filling"}
  /\ Cardinality(liveTimers) = 1
  /\ formUrlIsValid /\ allUploadsComplete

(* C3 as claimed: after teardown no response of the cancelled cycle        *)
(* changes the job state, and no poll timer is pending                     *)
C3_Claim ==
  [][ phase = "unmounted" => (UNCHANGED jobVars /\ liveTimers' = {}) ]_vars

(* C4 as claimed: a hydrate superseded by teardown or by a newer hydrate   *)
(* changes neither the list, manifestError, the loading flag nor the cache *)
Superseded(h) == phase = "unmounted" \/ h < Len(hydrates)
C4_Claim ==
  [][ \A h \in 1..Len(hydrates) :
        (HydrateResponse(h) /\ Superseded(h))
          => UNCHANGED <<files, manifestError, manifestLoading, cookie>> ]_vars

(* the visible rows are exactly the summaries `cached`, in order *)
ShowsExactly(list, cached) ==
  /\ Len(list) = Len(cached)
  /\ \A i \in 1..Len(cached) :
       /\ list[i].slug = cached[i].slug
       /\ list[i].name = cached[i].fileName
       /\ list[i].status = cached[i].status
       /\ list[i].size = cached[i].size
       /\ list[i].s3Url = cached[i].s3Url
       /\ list[i].persisted /\ ~list[i].deleting /\ list[i].error = ""

CookieAge == MountTime - cookie.updatedAt
CookieDated == cookie.kind = "json" /\ cookie.updatedAt # NaN

(* C5: the mount-time hydrate of a well-formed snapshot aged at most TTL   *)
(* shows its entries, clears manifestError and the loading flag, sends no  *)
(* manifest request (then or later) and leaves the cookie as it was        *)
C5_FreshCacheNoFetch ==
  [][ /\ (Mount /\ CookieDated /\ CookieAge <= MANIFEST_CACHE_TTL_MS)
           => /\ ShowsExactly(files', cookie.files)
              /\ manifestError' = ""
              /\ manifestLoading' = FALSE
              /\ hydrates'[1].pc = "done" /\ hydrates'[1].fetches = 0
              /\ cookie' = cookie
      /\ (hydrates # <<>>) => hydrates'[1].fetches = hydrates[1].fetches ]_vars

(* mounted on a snapshot aged exactly TTL: shown, nothing fetched *)
C5_Witness ==
  /\ phase = "mounted"
  /\ CookieDated /\ CookieAge = MANIFEST_CACHE_TTL_MS
  /\ Len(hydrates) = 1 /\ hydrates[1].pc = "done" /\ hydrates[1].fetches = 0
  /\ Len(files) >= 1 /\ ShowsExactly(files, cookie.files)
  /\ ~manifestLoading

(* C6: the mount-time hydrate of a snapshot older than TTL shows its       *)
(* entries in the very step that sends the manifest request, and sends     *)
(* exactly one; on a cache miss it sends exactly one as well               *)
C6_StaleOrMissOneFetch ==
  [][ /\ (Mount /\ CookieDated /\ CookieAge > MANIFEST_CACHE_TTL_MS)
           => /\ ShowsExactly(files', cookie.files)
              /\ hydrates'[1].pc = "fetching" /\ hydrates'[1].fetches = 1
      /\ (Mount /\ cookie.kind # "json")
           => /\ files' = <<>>
              /\ hydrates'[1].pc = "fetching" /\ hydrates'[1].fetches = 1
      /\ (hydrates # <<>>) => hydrates'[1].fetches = hydrates[1].fetches ]_vars

(* the stale snapshot is on screen while the one request is in flight *)
C6_Witness ==
  /\ CookieDated /\ CookieAge > MANIFEST_CACHE_TTL_MS
  /\ Len(hydrates) = 1 /\ hydrates[1].pc = "fetching" /\ hydrates[1].fetches = 1
  /\ Len(files) >= 1 /\ ShowsExactly(files, cookie.files)

SomeNotUploaded == \E i \in 1..Len(files) : files[i].status # "uploaded"

(* C7: handleStartFill changes nothing of the job, sends nothing and sets  *)
(* no timer when the link is not an http(s) URL, or a visible file is not  *)
(* 'uploaded', or a job is queued or filling                               *)
C7_StartPreconditions ==
  [][ ( /\ handleStartFill
        /\ \/ UrlProtocol(formUrl) \notin {"http:", "https:"}
           \/ SomeNotUploaded
           \/ jobStatus \in {"queued", "filling"} )
        => UNCHANGED <<jobVars, timerVars, jobReqs, starts, polls>> ]_vars

(* a start refused only for its ftp:// link *)
C7_Witness ==
  /\ lastEvent = "handleStartFill:return"
  /\ formUrl = Url_ftp
  /\ allUploadsComplete
  /\ jobStatus = "idle" /\ jobReqs = {} /\ liveTimers = {}

(* C8: while jobStatus is 'complete' or 'error' no poll timer is pending   *)
(* and no poll is in flight; a terminal creation or poll response sets the *)
(* status and the result URL it carries; a terminal status changes only by *)
(* a new start, to 'queued'                                                *)
C8_TerminalStopsPolling ==
  [][ /\ Terminal(jobStatus')
           => liveTimers' = {} /\ {r \in jobReqs' : r.kind = "poll"} = {}
      /\ \A r \in jobReqs, st \in {"complete", "error"}, url \in {ResultUrl, Null} :
           (StartFillResponse(r, st, url) \/ PollResponse(r, st, url))
             => jobStatus' = st /\ filledFormUrl' = (IF url = Null THEN "" ELSE url)
      /\ (Terminal(jobStatus) /\ jobStatus' # jobStatus)
           => handleStartFill /\ jobStatus' = "queued" ]_vars

(* job J1 after two polls: complete, its URL recorded, nothing pending *)
C8_Witness ==
  /\ jobStatus = "complete" /\ jobId = "J1" /\ filledFormUrl = ResultUrl
  /\ starts = 1 /\ polls = 2 /\ lastEvent = "pollResponse"
  /\ liveTimers = {} /\ jobReqs = {}

UserDeleted(u) ==
  uploads[u].removed \/ \E d \in 1..Len(deletes) : deletes[d].slug = SlugOf(u)

(* C9 as claimed: an upload acknowledged as 'processing' with slug s keeps *)
(* a row with slug s from the acknowledgment on, 'processing' until the    *)
(* delay timer fires and 'uploaded' after it, unless the user deletes it   *)
C9_Claim ==
  \A u \in 1..Len(uploads) :
    (uploads[u].ok /\ uploads[u].status = "processing" /\ ~UserDeleted(u))
      => /\ uploads[u].pc = "delay"
              => \E i \in 1..Len(files) :
                   files[i].slug = SlugOf(u) /\ files[i].status = "processing"
         /\ uploads[u].pc = "done"
              => \E i \in 1..Len(files) :
                   files[i].slug = SlugOf(u) /\ files[i].status = "uploaded"

(* C10 as claimed: a delete of a row with a slug sends one DELETE, shows   *)
(* deleting=true while it is in flight, removes the row (also from the     *)
(* cache) exactly when the DELETE succeeds, and on failure leaves the row  *)
(* with deleting=false and the failure message                             *)
C10_Claim ==
  [][ /\ \A d \in 1..Len(deletes') :
           deletes'[d].pc \in {"sent", "answered"}
             => \E i \in 1..Len(files') :
                  files'[i].slug = deletes'[d].slug /\ files'[i].deleting
      /\ \A d \in 1..Len(deletes) :
           /\ (DeleteResponse(d) /\ deletes[d].ok)
                => ~HasSlug(files', deletes[d].slug)
                   /\ ~HasSlug(cookie'.files, deletes[d].slug)
           /\ (DeleteResponse(d) /\ ~deletes[d].ok)
                => \E i \in 1..Len(files') :
                     /\ files'[i].slug = deletes[d].slug
                     /\ ~files'[i].deleting
                     /\ files'[i].error = RequestFailed ]_vars

(* the list `list` without its i-th row *)
WithoutRow(list, i) ==
  [j \in 1..(Len(list) - 1) |-> IF j < i THEN list[j] ELSE list[j + 1]]

(* C11: Delete on a row whose slug is empty removes that row in the same   *)
(* step, sends no request (no DELETE, nothing else) and leaves every other *)
(* row as it was, in the same order                                         *)
C11_LocalDelete ==
  [][ \A i \in 1..Len(files) :
        (handleDelete(i) /\ files[i].slug = "")
          => /\ files' = WithoutRow(files, i)
             /\ UNCHANGED <<deletes, hydrates, serverFiles, jobReqs>>
             /\ \A u \in 1..Len(uploads) : uploads'[u].pc = uploads[u].pc ]_vars

(* the user removed the row of upload 1 while upload 2 was still shown *)
C11_Witness ==
  /\ Len(uploads) = 2 /\ uploads[1].removed /\ ~uploads[2].removed
  /\ deletes = <<>>
  /\ \E i \in 1..Len(files) : files[i].id = uploads[2].id /\ files[i].slug = ""
  /\ \A i \in 1..Len(files) : files[i].id # uploads[1].id

(* hydrate h was not cancelled: it has no signal, or its signal is not aborted *)
NotCancelled(h) == ~(hydrates[h].hasSignal /\ signalAborted)
IsTransient(file) == ~file.persisted

(* C12: when the manifest fetch of a hydrate that was not cancelled        *)
(* succeeds with the list F, the visible list becomes the entries of F in  *)
(* the server's order followed by exactly the rows that were visible with  *)
(* persisted = false, in their order; manifestError is cleared and the     *)
(* loading flag is false (so F = <<>> and no transient row give no rows)    *)
C12_FetchSuccess ==
  [][ \A h \in 1..Len(hydrates) :
        (HydrateResponse(h) /\ hydrates[h].ok /\ NotCancelled(h))
          => LET F == hydrates[h].resp
                 T == SelectSeq(files, IsTransient)
             IN /\ Len(files') = Len(F) + Len(T)
                /\ ShowsExactly(SubSeq(files', 1, Len(F)), F)
                /\ SubSeq(files', Len(F) + 1, Len(files')) = T
                /\ manifestError' = ""
                /\ manifestLoading' = FALSE ]_vars

(* a refresh answered [z] while upload 1 was unacknowledged: z from that   *)
(* fetch, then the uploading row                                            *)
C12_Witness ==
  /\ Len(hydrates) = 2 /\ hydrates[2].pc = "done" /\ hydrates[2].ok
  /\ Len(files) = 2
  /\ files[1].id = randomUUID(<<"fetch", 2>>, 1) /\ files[1].slug = "z"
  /\ files[2].id = uploads[1].id /\ files[2].status = "uploading"
  /\ manifestError = "" /\ ~manifestLoading

(* C13: when the manifest fetch of a hydrate that was not cancelled fails, *)
(* manifestError becomes a non-empty message, the loading flag becomes     *)
(* false, and the visible list and the cache stay exactly as they were     *)
C13_FetchFailure ==
  [][ \A h \in 1..Len(hydrates) :
        (HydrateResponse(h) /\ ~hydrates[h].ok /\ NotCancelled(h))
          => /\ manifestError' # ""
             /\ manifestLoading' = FALSE
             /\ UNCHANGED <<files, cookie>> ]_vars

(* the mount-time fetch over a stale snapshot failed: the cached row stays, *)
(* the cookie is the stale one, the error is shown                          *)
C13_Witness ==
  /\ Len(hydrates) = 1 /\ hydrates[1].pc = "done" /\ ~hydrates[1].ok
  /\ hydrates[1].fetches = 1 /\ ~signalAborted
  /\ cookie = StaleCookie(<<FileZ>>)
  /\ Len(files) = 1 /\ files[1].slug = "z"
  /\ manifestError = RequestFailed /\ ~manifestLoading

RECURSIVE TransientOnly(_)
(* the rows of `list` with persisted = false, in order *)
TransientOnly(list) ==
  IF list = <<>> THEN <<>>
  ELSE IF Head(list).persisted THEN TransientOnly(Tail(list))
  ELSE <<Head(list)>> \o TransientOnly(Tail(list))

(* C14: mergePersistedEntries(server, visible) is `server` followed by     *)
(* the rows of `visible` with persisted = false, for every server list and *)
(* visible list within the bounds; and when `visible` has no such row,      *)
(* merging again gives the same list, which is `server`                     *)
C14_MergeLaw ==
  [][ \A skipCache \in BOOLEAN :
        MergeStep(skipCache)
          => LET server == mapManifestEntriesToState(serverFiles, <<"fetch", 1>>)
                 kept == TransientOnly(files)
             IN /\ Len(files') = Len(server) + Len(kept)
                /\ \A i \in 1..Len(server) : files'[i] = server[i]
                /\ \A i \in 1..Len(kept) : files'[Len(server) + i] = kept[i]
                /\ kept = <<>>
                     => /\ files' = server
                        /\ mergePersistedEntries(server, files') = files' ]_vars

(* [z, p] merged under the uploading row and over an old z row; and a list *)
(* without transient rows merged twice                                      *)
C14_Witness ==
  /\ hydrates = <<>> /\ cookie.kind = "json"
  /\ serverFiles = <<FileZ, FileP>>
  /\ Len(files) = 3
  /\ files[1].id = randomUUID(<<"fetch", 1>>, 1) /\ files[2].slug = "p"
  /\ files[3] = newUploadEntry(randomUUID(<<"select", 0>>, 1), 1)

RECURSIVE SluggedSummaries(_)
(* the (status, slug, name, url, size) summaries of the rows of `list`     *)
(* that have a slug, in order                                               *)
SluggedSummaries(list) ==
  IF list = <<>> THEN <<>>
  ELSE IF Head(list).slug = "" THEN SluggedSummaries(Tail(list))
  ELSE << [ status |-> Head(list).status, slug |-> Head(list).slug,
            fileName |-> Head(list).name, s3Url |-> Head(list).s3Url,
            size |-> Head(list).size ] >> \o SluggedSummaries(Tail(list))

WrittenThisSession(c) == c.kind = "json" /\ c.updatedAt = MountTime

(* C15: every step that changes the visible list writes the cache with the *)
(* summaries of the new list's rows that have a slug, except the hydrate   *)
(* step that shows a snapshot it has just read from the cache; so once the *)
(* cache has been written, its entries are, in order, the summaries of the *)
(* visible rows with a non-empty slug                                      *)
C15_CacheMirrorsList ==
  [][ /\ files' # files
        => \/ /\ WrittenThisSession(cookie')
              /\ cookie'.files = SluggedSummaries(files')
           \/ /\ Mount /\ cookie' = cookie /\ cookie.kind = "json"
              /\ ShowsExactly(files', cookie.files)
      /\ WrittenThisSession(cookie') => cookie'.files = SluggedSummaries(files') ]_vars

(* after the delayed flip of upload 1 next to a failed upload 2: the cache *)
(* holds z and the 'uploaded' summary of upload 1, the list three rows     *)
C15_Witness ==
  /\ WrittenThisSession(cookie)
  /\ Len(uploads) = 2 /\ uploads[1].pc = "done" /\ uploads[1].status = "processing"
  /\ uploads[2].pc = "done" /\ ~uploads[2].ok
  /\ Len(files) = 3 /\ Len(cookie.files) = 2
  /\ cookie.files[1].slug = "z"
  /\ cookie.files[2].slug = SlugOf(1) /\ cookie.files[2].status = "uploaded"

(* C16 as claimed: no two visible rows share an id, and no two share the   *)
(* same non-empty slug, under every interleaving of upload acknowledgments *)
(* with manifest fetch completions                                         *)
C16_Claim ==
  \A i, j \in 1..Len(files) :
    i # j => /\ files[i].id # files[j].id
             /\ files[i].slug # "" => files[i].slug # files[j].slug

FromManifest(file) == file.id[1] \in {"cache", "fetch"}
FromSelection(file) == file.id[1] = "select"

(* C17 as claimed: in every reachable state all rows with persisted = true *)
(* come before all rows with persisted = false                              *)
C17_Claim ==
  \A i, j \in 1..Len(files) :
    (files[i].persisted /\ ~files[j].persisted) => i < j

(* C17, amended: in every reachable state the rows created by a manifest   *)
(* application come before the rows created by file selection; the         *)
(* manifest rows all belong to one application and stand in the order of   *)
(* its list, the selection rows stand in the order of selection; an        *)
(* acknowledgment or failure updates its row in place                      *)
C17_ManifestRowsFirst ==
  /\ \A i, j \in 1..Len(files) :
       /\ (FromManifest(files[i]) /\ FromSelection(files[j])) => i < j
       /\ (FromManifest(files[i]) /\ FromManifest(files[j]) /\ i < j)
            => /\ files[i].id[1] = files[j].id[1] /\ files[i].id[2] = files[j].id[2]
               /\ files[i].id[3] < files[j].id[3]
       /\ (FromSelection(files[i]) /\ FromSelection(files[j]) /\ i < j)
            => \/ files[i].id[2] < files[j].id[2]
               \/ files[i].id[2] = files[j].id[2] /\ files[i].id[3] < files[j].id[3]
  /\ \A i \in 1..Len(files) : FromManifest(files[i]) => files[i].persisted

(* z from the cache, then upload 1 still uploading, then upload 2 already  *)
(* acknowledged: a persisted row after a transient one                     *)
C17_Witness ==
  /\ Len(files) = 3
  /\ FromManifest(files[1])
  /\ files[2].id = uploads[1].id /\ ~files[2].persisted
  /\ files[3].id = uploads[2].id /\ files[3].persisted

(* C18 as claimed: for every visible row, persisted is true exactly when   *)
(* its slug is non-empty, whether the row came from a cached or fetched    *)
(* manifest or was updated by an upload acknowledgment or failure          *)
C18_Claim ==
  \A i \in 1..Len(files) : files[i].persisted <=> files[i].slug # ""

(* no entry of the cache `c` is the file named `name` *)
NotCached(c, name) ==
  c.kind = "json" => \A k \in 1..Len(c.files) : c.files[k].fileName # name

(* C19: when an upload request fails, the row with that id gets status     *)
(* 'error', an empty slug and URL, persisted = false and the failure       *)
(* message; it stays in the list where it was and no other row changes;    *)
(* the file is in no cache snapshot written by that step or later, and the *)
(* failed row stays visible until the user removes it                      *)
C19_UploadFailure ==
  [][ /\ \A u \in 1..Len(uploads), i \in 1..Len(files) :
           (UploadResponse(u) /\ ~uploads[u].ok /\ files[i].id = uploads[u].id)
             => /\ files' = [files EXCEPT ![i].status = "error", ![i].slug = "",
                                          ![i].s3Url = "", ![i].error = RequestFailed]
                /\ ~files'[i].persisted
                /\ NotCached(cookie', FileNameOf(u))
      /\ \A u \in 1..Len(uploads') :
           (uploads'[u].pc = "done" /\ ~uploads'[u].ok)
             => /\ NotCached(cookie', FileNameOf(u))
                /\ ~uploads'[u].removed
                     => \E i \in 1..Len(files') :
                          /\ files'[i].id = uploads'[u].id
                          /\ files'[i].status = "error" /\ files'[i].slug = ""
                          /\ files'[i].error = RequestFailed
                          /\ ~files'[i].persisted ]_vars

(* upload 1 failed, upload 2 was acknowledged and a later refresh has been *)
(* applied: the failed row is still shown, the cache holds slug b only     *)
(* among the uploads                                                        *)
C19_Witness ==
  /\ Len(uploads) = 2 /\ uploads[1].pc = "done" /\ ~uploads[1].ok
  /\ uploads[2].pc = "done" /\ uploads[2].ok
  /\ Len(hydrates) = 2 /\ hydrates[2].pc = "done" /\ hydrates[2].ok
  /\ \E i \in 1..Len(files) : files[i].id = uploads[1].id /\ files[i].status = "error"
  /\ cookie.kind = "json" /\ HasSlug(cookie.files, SlugOf(2))
  /\ NotCached(cookie, FileNameOf(1))

PollsInFlight(reqs) == {r \in reqs : r.kind = "poll"}
CreatesInFlight(reqs) == {r \in reqs : r.kind = "create"}

(* C20: at most one job-status poll request is in flight at any time; no   *)
(* poll request is in flight while a poll timer is pending or while the    *)
(* job-creation request is in flight; and a poll timer is set only by the  *)
(* continuation of a non-terminal response (of the previous poll, or of    *)
(* the creation request for the first timer of a job), which was the only  *)
(* request in flight and whose job the new timer polls                     *)
C20_OnePollInFlight ==
  [][ /\ Cardinality(PollsInFlight(jobReqs')) <= 1
      /\ liveTimers' # {} => PollsInFlight(jobReqs') = {}
      /\ CreatesInFlight(jobReqs') # {} => PollsInFlight(jobReqs') = {}
      /\ \A t \in liveTimers' \ liveTimers :
           \E r \in jobReqs :
             /\ jobReqs = {r} /\ jobReqs' = {} /\ liveTimers' = {t}
             /\ ~Terminal(jobStatus')
             /\ \/ r.kind = "poll" /\ t.jobId = r.jobId
                \/ r.kind = "create" /\ t.jobId = JobIdOf(r.n) ]_vars

(* the second poll of job J1 is in flight: it is the only request, and no  *)
(* timer is pending                                                         *)
C20_Witness ==
  /\ polls = 2 /\ starts = 1 /\ lastEvent = "pollTimerFires"
  /\ \E r \in jobReqs : jobReqs = {r} /\ r.kind = "poll" /\ r.n = 2 /\ r.jobId = "J1"
  /\ liveTimers = {}
  /\ jobStatus \in {"queued", "filling"}

(* C21: when a poll request or the job-creation request fails, jobStatus   *)
(* becomes 'error' with a non-empty jobError in that same step and no poll *)
(* timer or request is left pending; while jobStatus is 'error' no poll is *)
(* sent and no timer is set, and only a new start by the user leaves it    *)
C21_FailureStopsJob ==
  [][ /\ \A r \in jobReqs :
           (PollFailure(r) \/ StartFillFailure(r))
             => /\ jobStatus' = "error" /\ jobError' # ""
                /\ liveTimers' = {} /\ jobReqs' = {}
      /\ jobStatus = "error"
           => /\ polls' = polls
              /\ liveTimers' = {} /\ PollsInFlight(jobReqs') = {}
              /\ jobStatus' # "error" => (handleStartFill /\ starts' = starts + 1) ]_vars

(* the second poll of job J1 failed: error shown, nothing pending *)
C21_Witness ==
  /\ lastEvent = "pollFailure" /\ polls = 2 /\ starts = 1 /\ jobId = "J1"
  /\ jobStatus = "error" /\ jobError = RequestFailed
  /\ liveTimers = {} /\ jobReqs = {}

(* the acknowledgment of upload u has been processed by uploadDocument *)
Acknowledged(u) == uploads[u].ok /\ uploads[u].pc \in {"delay", "done"}

(* C22 as claimed: once the acknowledgment of an upload with slug s has    *)
(* been applied, a row with slug s stays in the visible list and in the    *)
(* cache written since, until the user deletes it, even when a manifest    *)
(* fetch answered before the backend stored s is applied afterwards        *)
C22_Claim ==
  \A u \in 1..Len(uploads) :
    (Acknowledged(u) /\ ~UserDeleted(u))
      => /\ HasSlug(files, SlugOf(u))
         /\ WrittenThisSession(cookie) => HasSlug(cookie.files, SlugOf(u))
============================================================================
